---------------------------- MODULE Spec2Model ----------------------------
(***************************************************************************)
(* Model of OrthancServer/Resources/DicomConformanceStatement.py: the      *)
(* script that reads the DCMTK version, downloads the DCMTK archive,       *)
(* extracts the Storage SOP Class UIDs of dcuid.h, loads the transfer      *)
(* syntaxes and renders the DICOM conformance statement.                   *)
(*                                                                         *)
(* Texts are TLA+ strings; Len, \o and SubSeq act on them character by     *)
(* character.  A byte >= 0x80 of the header file is written HighByte.      *)
(***************************************************************************)
EXTENDS Integers, Sequences, FiniteSets, TLC

VARIABLES
    pc,                 \* position of the script
    failedAt,           \* the stage whose exception aborted the run, "" if none
    ran,                \* the stages that have completed, in order
    cmake,              \* the text that r, the match object of line 42, searched
    version,            \* line 44
    url,                \* line 45
    tar,                \* member names of the archive, in archive order (line 50)
    dcuid,              \* index in tar of the extracted member, 0 for None (lines 49-53)
    dcmtk,              \* dcuid.readlines() (line 56)
    all_store_scp,      \* lines 60-74
    longest,            \* lines 61-65 and 86-93
    store_scp,          \* line 76
    retired_store_scp,  \* line 77
    draft_store_scp,    \* line 78
    a,                  \* json.loads of DicomTransferSyntaxes.json (line 83)
    transfer_syntaxes,  \* lines 85-98
    template,           \* f.read() of DicomConformanceStatement.mustache (line 104)
    outFile,            \* DicomConformanceStatement.txt on disk
    outBefore           \* DicomConformanceStatement.txt as it was before the run

vars == <<pc, failedAt, ran, cmake, version, url, tar, dcuid, dcmtk,
          all_store_scp, longest, store_scp, retired_store_scp,
          draft_store_scp, a, transfer_syntaxes, template, outFile, outBefore>>

-----------------------------------------------------------------------------
(* Bounds of the model *)

MaxLines == 3        \* lines of dcuid.h
MaxRecords == 2      \* records of DicomTransferSyntaxes.json
MaxMembers == 2      \* members of the archive
MaxDecls == 2        \* lines of OrthancFrameworkParameters.cmake

-----------------------------------------------------------------------------
(* Strings *)

Max(x, y) == IF x >= y THEN x ELSE y

CharAt(s, i) == SubSeq(s, i, i)

\* The characters of the model in increasing code point order
CodePoints == "\t\n !\"#()-./0123456789ABCDEFGHIJKLMNOPQRSTUVWXYZ_abcdefghijklmnopqrstuvwxyz~"

Ord == [c \in {CharAt(CodePoints, i) : i \in 1..Len(CodePoints)} |->
            CHOOSE i \in 1..Len(CodePoints) : CharAt(CodePoints, i) = c]

\* A byte of the header file that is not ASCII
HighByte == "~"

\* str.__lt__: comparison by code point, a proper prefix is smaller
RECURSIVE StrLess(_, _)
StrLess(s, t) ==
    IF Len(t) = 0 THEN FALSE
    ELSE IF Len(s) = 0 THEN TRUE
    ELSE IF CharAt(s, 1) = CharAt(t, 1) THEN StrLess(Tail(s), Tail(t))
    ELSE Ord[CharAt(s, 1)] < Ord[CharAt(t, 1)]

\* str.startswith at offset i (1-based)
StartsWithAt(s, i, p) ==
    /\ i + Len(p) - 1 <= Len(s)
    /\ SubSeq(s, i, i + Len(p) - 1) = p

startswith(s, p) == StartsWithAt(s, 1, p)

endswith(s, p) ==
    /\ Len(p) <= Len(s)
    /\ SubSeq(s, Len(s) - Len(p) + 1, Len(s)) = p

RECURSIVE Spaces(_)
Spaces(n) == IF n <= 0 THEN "" ELSE " " \o Spaces(n - 1)

\* str.ljust that pads nothing
ljust_noPadding(s, width) == s

\* str.ljust(width): pad on the right with spaces, never truncate
ljust(s, width) == s \o Spaces(width - Len(s))

-----------------------------------------------------------------------------
(* Version Resolver: line 42 *)

Digits == {"0", "1", "2", "3", "4", "5", "6", "7", "8", "9"}

\* the character class [0-9.]
VersionChars == Digits \cup {"."}

\* the character class \s
Whitespace == {" ", "\t", "\n"}

VersionPrefix == "set(DCMTK_STATIC_VERSION \""

VersionSuffix == "\" CACHE STRING"

\* the last index of the longest run of characters of cls starting at i, i-1 if none
RECURSIVE RunEnd(_, _, _)
RunEnd(s, i, cls) ==
    IF i <= Len(s) /\ CharAt(s, i) \in cls THEN RunEnd(s, i + 1, cls) ELSE i - 1

\* r'set\(DCMTK_STATIC_VERSION "([0-9.]+)" CACHE STRING' matches s at offset i
VersionMatchAt(s, i) ==
    /\ StartsWithAt(s, i, VersionPrefix)
    /\ LET b == i + Len(VersionPrefix)
           e == RunEnd(s, b, VersionChars)
       IN  e >= b /\ StartsWithAt(s, e + 1, VersionSuffix)

VersionGroupAt(s, i) ==
    LET b == i + Len(VersionPrefix)
    IN  SubSeq(s, b, RunEnd(s, b, VersionChars))

\* the offsets of s where the pattern matches
VersionMatches(s) == {i \in 1..Len(s) : VersionMatchAt(s, i)}

\* a search that returns the rightmost match
SearchVersion_lastMatch(s) ==
    LET M == VersionMatches(s)
    IN  IF M = {} THEN [found |-> FALSE, group1 |-> ""]
        ELSE [found |-> TRUE,
              group1 |-> VersionGroupAt(s, CHOOSE i \in M : \A j \in M : j <= i)]

\* re.search: the leftmost match; found = FALSE stands for None
SearchVersion(s) ==
    LET M == VersionMatches(s)
    IN  IF M = {} THEN [found |-> FALSE, group1 |-> ""]
        ELSE [found |-> TRUE,
              group1 |-> VersionGroupAt(s, CHOOSE i \in M : \A j \in M : i <= j)]

\* line 45
DownloadUrl(v) ==
    "https://orthanc.uclouvain.be/downloads/third-party-downloads/dcmtk-" \o v \o ".tar.gz"

-----------------------------------------------------------------------------
(* UID Extractor: the pattern of line 63 *)

DefinePrefix == "#define UID_"

StorageToken == "Storage"

\* every character of s[i..j] is matched by '.', that is, is not a newline
NoNewline(s, i, j) == \A k \in i..j : CharAt(s, k) # "\n"

\* the index of the closing quote of the lazy group "(.+?)" opened at q, 0 if none
ClosingQuote(s, q) ==
    LET C == {r \in (q + 2)..Len(s) : CharAt(s, r) = "\"" /\ NoNewline(s, q + 1, r - 1)}
    IN  IF C = {} THEN 0 ELSE CHOOSE r \in C : \A r2 \in C : r <= r2

\* with "Storage" at k..k+6: the index of the opening quote after \s*, 0 if none
OpeningQuote(s, k) ==
    LET q == RunEnd(s, k + Len(StorageToken), Whitespace) + 1
    IN  IF q <= Len(s) /\ CharAt(s, q) = "\"" THEN q ELSE 0

\* the positions k of "Storage" at which the whole pattern matches
StoragePositions(s) ==
    LET b == Len(DefinePrefix) + 1
    IN  {k \in (b + 1)..Len(s) :
            /\ StartsWithAt(s, k, StorageToken)
            /\ NoNewline(s, b, k - 1)
            /\ OpeningQuote(s, k) # 0
            /\ ClosingQuote(s, OpeningQuote(s, k)) # 0}

\* re.match(r'#define UID_(.+?Storage)\s*"(.+?)"', s): found = FALSE stands for None
MatchDefine(s) ==
    LET b == Len(DefinePrefix) + 1
        K == IF startswith(s, DefinePrefix) THEN StoragePositions(s) ELSE {}
    IN  IF K = {} THEN [found |-> FALSE, group1 |-> "", group2 |-> ""]
        ELSE LET k == CHOOSE x \in K : \A y \in K : x <= y
                 q == OpeningQuote(s, k)
             IN  [found |-> TRUE,
                  group1 |-> SubSeq(s, b, k + Len(StorageToken) - 1),
                  group2 |-> SubSeq(s, q + 1, ClosingQuote(s, q) - 1)]

\* bytes.decode('ascii') succeeds
IsAscii(s) == \A i \in 1..Len(s) : CharAt(s, i) # HighByte

-----------------------------------------------------------------------------
(* The files and the network the script reads *)

SeqsUpTo(S, n) == UNION {[1..k -> S] : k \in 0..n}

RECURSIVE Join(_)
Join(lines) == IF lines = <<>> THEN "" ELSE Head(lines) \o Join(Tail(lines))

ConfigLines ==
    {"set(DCMTK_STATIC_VERSION \"3.6.9\" CACHE STRING \"Version of DCMTK\")\n",
     "set(DCMTK_STATIC_VERSION \"3.7.0\" CACHE STRING \"Version of DCMTK\")\n",
     "set(DCMTK_STATIC_VERSION \"\" CACHE STRING \"Version of DCMTK\")\n"}

ConfigTexts == {Join(ls) : ls \in SeqsUpTo(ConfigLines, MaxDecls)}

MemberNames ==
    {"dcmtk/dcmdata/include/dcmtk/dcmdata/dcuid.h",
     "dcmtk/doc/dcmdata/include/dcmtk/dcmdata/dcuid.h",
     "dcmtk/dcmdata/include/dcmtk/dcmdata/dcuid.h.in"}

Archives == SeqsUpTo(MemberNames, MaxMembers)

\* the response of requests.get: its status and whether its body is a gzipped tar
Responses ==
    {[status |-> 404, gzip |-> FALSE, names |-> <<>>],
     [status |-> 200, gzip |-> FALSE, names |-> <<>>]}
    \cup {[status |-> 200, gzip |-> TRUE, names |-> ns] : ns \in Archives}

HeaderLines ==
    {"#define UID_SecondaryCaptureImageStorage \"1.2.840.10008.5.1.4.1.1.7\"\n",
     "#define UID_RETIRED_NuclearMedicineImageStorage  \"1.2.840.10008.5.1.4.1.1.5\"\n",
     "#define UID_DRAFT_SRTextStorage \"1.2.840.10008.5.1.4.1.1.88.1\"\n",
     "#define UID_CTImageStorage \"1.2.840.10008.5.1.4.1.1.2\"\n",
     "#define UID_CTImageStorage \"1.2.840.10008.5.1.4.1.1.2.1\"\n",
     "#define UID_VerificationSOPClass \"1.2.840.10008.1.1\"\n",
     "// Copyright " \o HighByte \o " OFFIS\n"}

Headers == SeqsUpTo(HeaderLines, MaxLines)

Records ==
    {[Value |-> "JPEG2000LosslessOnly", UID |-> "1.2.840.10008.1.2.4.90"],
     [Value |-> "MPEG2MainProfileAtMainLevel", UID |-> "1.2.840.10008.1.2.4.100"],
     [Value |-> "Papyrus3ImplicitVRLittleEndian"]}

\* DicomTransferSyntaxes.json: whether json.loads accepts it, and its records
JsonFiles ==
    {[parses |-> FALSE, records |-> <<>>]}
    \cup {[parses |-> TRUE, records |-> rs] : rs \in SeqsUpTo(Records, MaxRecords)}

AllSections == <<"store_scp", "draft_store_scp", "retired_store_scp", "transfer_syntaxes">>

\* DicomConformanceStatement.mustache: whether pystache parses it, and its sections
TemplateFiles ==
    {[parses |-> FALSE, sections |-> <<>>],
     [parses |-> TRUE, sections |-> AllSections]}

NoTemplate == [parses |-> FALSE, sections |-> <<>>]

OutFiles ==
    {[exists |-> FALSE, content |-> ""],
     [exists |-> TRUE, content |-> "[store_scp]\n  CTImageStorage | 1.2.840.10008.5.1.4.1.1.2\n"]}

-----------------------------------------------------------------------------
(* Remote Archive Fetcher: lines 49-53 *)

HeaderSuffix == "dcmdata/include/dcmtk/dcmdata/dcuid.h"

\* the loop of lines 51-53 if it kept the first match
RECURSIVE ScanFrom_firstMatch(_, _, _)
ScanFrom_firstMatch(names, i, found) ==
    IF i > Len(names) THEN found
    ELSE ScanFrom_firstMatch(names, i + 1,
             IF endswith(names[i], HeaderSuffix) /\ found = 0 THEN i ELSE found)

\* the loop of lines 51-53 from member i on; found is dcuid so far (0 for None)
RECURSIVE ScanFrom(_, _, _)
ScanFrom(names, i, found) ==
    IF i > Len(names) THEN found
    ELSE ScanFrom(names, i + 1, IF endswith(names[i], HeaderSuffix) THEN i ELSE found)

ScanMembers(names) == ScanFrom(names, 1, 0)

-----------------------------------------------------------------------------
(* UID Extractor: lines 60-78 *)

\* line 63 for each line the header can hold
DefineMatches == [l \in HeaderLines |-> MatchDefine(l)]

\* the loop of lines 62-69 over lines[1..n]
RECURSIVE ExtractEntries(_, _)
ExtractEntries(lines, n) ==
    IF n = 0 THEN <<>>
    ELSE LET m == DefineMatches[lines[n]]
         IN  IF m.found
             THEN Append(ExtractEntries(lines, n - 1), [name |-> m.group1, uid |-> m.group2])
             ELSE ExtractEntries(lines, n - 1)

\* longest after the loop of lines 62-69 (line 65), and after that of lines 87-93 (line 93)
RECURSIVE LongestName(_)
LongestName(entries) ==
    IF entries = <<>> THEN 0
    ELSE Max(LongestName(Tail(entries)), Len(Head(entries).name))

\* the index of the first line that decode('ascii') rejects, 0 if none
FirstNonAscii(lines) ==
    LET B == {i \in 1..Len(lines) : ~IsAscii(lines[i])}
    IN  IF B = {} THEN 0 ELSE CHOOSE i \in B : \A j \in B : i <= j

\* sorted(seq, key = lambda x: x[key]): stable, ascending by str comparison of the keys
SortedBy(seq, key) ==
    LET RECURSIVE Go(_)
        Go(n) ==
            IF n = 0 THEN <<>>
            ELSE LET prev == Go(n - 1)
                     x == seq[n]
                     p == Cardinality({i \in 1..Len(prev) : ~StrLess(x[key], prev[i][key])})
                 IN  SubSeq(prev, 1, p) \o <<x>> \o SubSeq(prev, p + 1, Len(prev))
    IN  Go(Len(seq))

\* line 71 with the result of sorted() dropped
SortByName_resultDropped(entries) == entries

\* line 71
SortByName(entries) == SortedBy(entries, "name")

\* line 95 with the key of line 71
SortByUid_byName(entries) == SortedBy(entries, "name")

\* line 95
SortByUid(entries) == SortedBy(entries, "uid")

\* lines 73-74 and 97-98 padding one column too far
PadNames_oneTooWide(entries, width) ==
    [i \in 1..Len(entries) |-> [entries[i] EXCEPT !.name = ljust(@, width + 1)]]

\* lines 73-74 and 97-98
PadNames(entries, width) ==
    [i \in 1..Len(entries) |-> [entries[i] EXCEPT !.name = ljust(@, width)]]

\* list(filter(Keep, seq))
RECURSIVE FilterSeq(_, _)
FilterSeq(seq, keep) ==
    IF seq = <<>> THEN <<>>
    ELSE IF Head(seq) \in keep THEN <<Head(seq)>> \o FilterSeq(Tail(seq), keep)
    ELSE FilterSeq(Tail(seq), keep)

Range(seq) == {seq[i] : i \in 1..Len(seq)}

\* line 76 without its test of "RETIRED"
FilterCurrent_keepsRetired(entries) ==
    FilterSeq(entries, {x \in Range(entries) : ~startswith(x.name, "DRAFT")})

\* line 76
FilterCurrent(entries) ==
    FilterSeq(entries, {x \in Range(entries) :
        ~startswith(x.name, "DRAFT") /\ ~startswith(x.name, "RETIRED")})

\* line 77 with the prefix of line 78
FilterRetired_testsDraft(entries) ==
    FilterSeq(entries, {x \in Range(entries) : startswith(x.name, "DRAFT")})

\* line 77
FilterRetired(entries) ==
    FilterSeq(entries, {x \in Range(entries) : startswith(x.name, "RETIRED")})

\* line 78
FilterDraft(entries) ==
    FilterSeq(entries, {x \in Range(entries) : startswith(x.name, "DRAFT")})

-----------------------------------------------------------------------------
(* Transfer Syntax Loader: lines 85-93 *)

\* the loop of lines 87-93 over records[1..n]
RECURSIVE BuildTransferSyntaxes(_, _)
BuildTransferSyntaxes(records, n) ==
    IF n = 0 THEN <<>>
    ELSE Append(BuildTransferSyntaxes(records, n - 1),
                [name |-> records[n].Value \o "TransferSyntax", uid |-> records[n].UID])

\* the index of the first record for which a[i]['Value'] or a[i]['UID'] raises KeyError, 0 if none
FirstBadRecord(records) ==
    LET B == {i \in 1..Len(records) : ~({"Value", "UID"} \subseteq DOMAIN records[i])}
    IN  IF B = {} THEN 0 ELSE CHOOSE i \in B : \A j \in B : i <= j

-----------------------------------------------------------------------------
(* Document Renderer: lines 104-109 *)

\* one entry of a section: the padded name and the UID on one line
RenderEntry(e) == "  " \o e.name \o " | " \o e.uid \o "\n"

RECURSIVE RenderEntries(_)
RenderEntries(entries) ==
    IF entries = <<>> THEN ""
    ELSE RenderEntry(Head(entries)) \o RenderEntries(Tail(entries))

\* pystache.render(template, context): the sections of the template in order
RECURSIVE Render(_, _)
Render(sections, context) ==
    IF sections = <<>> THEN ""
    ELSE "[" \o Head(sections) \o "]\n" \o RenderEntries(context[Head(sections)])
             \o Render(Tail(sections), context)

\* the context of lines 104-109
RenderContext ==
    [store_scp |-> store_scp,
     draft_store_scp |-> draft_store_scp,
     retired_store_scp |-> retired_store_scp,
     transfer_syntaxes |-> transfer_syntaxes]

-----------------------------------------------------------------------------
(* The script *)

Init ==
    /\ pc = "start"
    /\ failedAt = ""
    /\ ran = <<>>
    /\ cmake = ""
    /\ version = ""
    /\ url = ""
    /\ tar = <<>>
    /\ dcuid = 0
    /\ dcmtk = <<>>
    /\ all_store_scp = <<>>
    /\ longest = 0
    /\ store_scp = <<>>
    /\ retired_store_scp = <<>>
    /\ draft_store_scp = <<>>
    /\ a = <<>>
    /\ transfer_syntaxes = <<>>
    /\ template = NoTemplate
    /\ outFile \in OutFiles
    /\ outBefore = outFile

\* an exception propagates to the top level: the script stops
Raise(stage) ==
    /\ pc' = "failed"
    /\ failedAt' = stage
    /\ ran' = ran

Pass(stage, next) ==
    /\ pc' = next
    /\ failedAt' = failedAt
    /\ ran' = Append(ran, stage)

\* lines 41-45 if the output file were opened at the top of the script
ReadVersion_opensOutput ==
    /\ pc = "start"
    /\ \E text \in ConfigTexts :
         LET r == SearchVersion(text)
         IN  /\ cmake' = text
             /\ IF r.found
                THEN /\ version' = r.group1
                     /\ url' = DownloadUrl(r.group1)
                     /\ Pass("version", "resolved")
                ELSE /\ UNCHANGED <<version, url>>
                     /\ Raise("version")
    /\ outFile' = [exists |-> TRUE, content |-> ""]
    /\ UNCHANGED <<tar, dcuid, dcmtk, all_store_scp, longest, store_scp,
                   retired_store_scp, draft_store_scp, a, transfer_syntaxes,
                   template, outBefore>>

\* lines 41-45
ReadVersion ==
    /\ pc = "start"
    /\ \E text \in ConfigTexts :
         LET r == SearchVersion(text)
         IN  /\ cmake' = text
             /\ IF r.found
                THEN /\ version' = r.group1
                     /\ url' = DownloadUrl(r.group1)
                     /\ Pass("version", "resolved")
                ELSE /\ UNCHANGED <<version, url>>
                     /\ Raise("version")
    /\ UNCHANGED <<tar, dcuid, dcmtk, all_store_scp, longest, store_scp,
                   retired_store_scp, draft_store_scp, a, transfer_syntaxes,
                   template, outFile, outBefore>>

\* lines 46-50; line 46 rebinds r, the match object of line 42 and the text it
\* searched are gone
Fetch ==
    /\ pc = "resolved"
    /\ \E resp \in Responses :
         IF resp.status >= 400 \/ ~resp.gzip
         THEN /\ UNCHANGED tar
              /\ Raise("fetch")
         ELSE /\ tar' = resp.names
              /\ Pass("fetch", "fetched")
    /\ cmake' = ""
    /\ dcuid' = 0
    /\ UNCHANGED <<version, url, dcmtk, all_store_scp, longest, store_scp,
                   retired_store_scp, draft_store_scp, a, transfer_syntaxes,
                   template, outFile, outBefore>>

\* lines 51-53
ScanArchive ==
    /\ pc = "fetched"
    /\ dcuid' = ScanMembers(tar)
    /\ Pass("scan", "scanned")
    /\ UNCHANGED <<cmake, version, url, tar, dcmtk, all_store_scp, longest, store_scp,
                   retired_store_scp, draft_store_scp, a, transfer_syntaxes,
                   template, outFile, outBefore>>

\* lines 55-56; the with block of line 41 ends here and nothing below reads
\* what it bound (f, r, version, url, tar, dcuid), which leaves the state
ReadLines ==
    /\ pc = "scanned"
    /\ IF dcuid = 0
       THEN /\ Raise("readlines")
            /\ UNCHANGED <<cmake, version, url, tar, dcuid, dcmtk>>
       ELSE /\ dcmtk' \in Headers
            /\ cmake' = ""
            /\ version' = ""
            /\ url' = ""
            /\ tar' = <<>>
            /\ dcuid' = 0
            /\ Pass("readlines", "header")
    /\ UNCHANGED <<all_store_scp, longest, store_scp,
                   retired_store_scp, draft_store_scp, a, transfer_syntaxes,
                   template, outFile, outBefore>>

\* lines 60-69
ExtractUids ==
    /\ pc = "header"
    /\ LET bad == FirstNonAscii(dcmtk)
           n == IF bad = 0 THEN Len(dcmtk) ELSE bad - 1
       IN  /\ all_store_scp' = ExtractEntries(dcmtk, n)
           /\ longest' = LongestName(ExtractEntries(dcmtk, n))
           /\ IF bad = 0 THEN Pass("extract", "extracted") ELSE Raise("extract")
    /\ UNCHANGED <<cmake, version, url, tar, dcuid, dcmtk, store_scp,
                   retired_store_scp, draft_store_scp, a, transfer_syntaxes,
                   template, outFile, outBefore>>

\* lines 71-74
SortAndPad ==
    /\ pc = "extracted"
    /\ all_store_scp' = PadNames(SortByName(all_store_scp), longest)
    /\ Pass("sortpad", "padded")
    /\ UNCHANGED <<cmake, version, url, tar, dcuid, dcmtk, longest, store_scp,
                   retired_store_scp, draft_store_scp, a, transfer_syntaxes,
                   template, outFile, outBefore>>

\* lines 76-78
Classify ==
    /\ pc = "padded"
    /\ store_scp' = FilterCurrent(all_store_scp)
    /\ retired_store_scp' = FilterRetired(all_store_scp)
    /\ draft_store_scp' = FilterDraft(all_store_scp)
    /\ Pass("classify", "classified")
    /\ UNCHANGED <<cmake, version, url, tar, dcuid, dcmtk, all_store_scp, longest,
                   a, transfer_syntaxes, template, outFile, outBefore>>

\* lines 82-98
LoadTransferSyntaxes ==
    /\ pc = "classified"
    /\ \E file \in JsonFiles :
         IF ~file.parses
         THEN /\ UNCHANGED <<a, transfer_syntaxes, longest>>
              /\ Raise("loadts")
         ELSE LET bad == FirstBadRecord(file.records)
                  n == IF bad = 0 THEN Len(file.records) ELSE bad - 1
                  built == BuildTransferSyntaxes(file.records, n)
              IN  /\ a' = file.records
                  /\ longest' = LongestName(built)
                  /\ IF bad = 0
                     THEN /\ transfer_syntaxes' = PadNames(SortByUid(built), LongestName(built))
                          /\ Pass("loadts", "tsready")
                     ELSE /\ transfer_syntaxes' = built
                          /\ Raise("loadts")
    /\ UNCHANGED <<cmake, version, url, tar, dcuid, dcmtk, all_store_scp, store_scp,
                   retired_store_scp, draft_store_scp, template, outFile, outBefore>>

\* line 102
OpenTemplate ==
    /\ pc = "tsready"
    /\ \E exists \in BOOLEAN :
         IF exists THEN Pass("opentemplate", "template") ELSE Raise("opentemplate")
    /\ UNCHANGED <<cmake, version, url, tar, dcuid, dcmtk, all_store_scp, longest,
                   store_scp, retired_store_scp, draft_store_scp, a,
                   transfer_syntaxes, template, outFile, outBefore>>

\* line 103: open(..., 'w') creates the file or truncates it
OpenOutput ==
    /\ pc = "template"
    /\ outFile' = [exists |-> TRUE, content |-> ""]
    /\ Pass("openoutput", "output")
    /\ UNCHANGED <<cmake, version, url, tar, dcuid, dcmtk, all_store_scp, longest,
                   store_scp, retired_store_scp, draft_store_scp, a,
                   transfer_syntaxes, template, outBefore>>

\* lines 104-109: read the template, render it, then write what was rendered
RenderAndWrite ==
    /\ pc = "output"
    /\ \E file \in TemplateFiles :
         /\ template' = file
         /\ IF file.parses
            THEN /\ outFile' = [exists |-> TRUE,
                                content |-> Render(file.sections, RenderContext)]
                 /\ Pass("render", "done")
            ELSE /\ UNCHANGED outFile
                 /\ Raise("render")
    /\ UNCHANGED <<cmake, version, url, tar, dcuid, dcmtk, all_store_scp, longest,
                   store_scp, retired_store_scp, draft_store_scp, a,
                   transfer_syntaxes, outBefore>>

Next ==
    \/ ReadVersion
    \/ Fetch
    \/ ScanArchive
    \/ ReadLines
    \/ ExtractUids
    \/ SortAndPad
    \/ Classify
    \/ LoadTransferSyntaxes
    \/ OpenTemplate
    \/ OpenOutput
    \/ RenderAndWrite

Spec == Init /\ [][Next]_vars

-----------------------------------------------------------------------------
(* What the properties below speak of *)

\* the stages of the script in program order
StageOrder ==
    <<"version", "fetch", "scan", "readlines", "extract", "sortpad", "classify",
      "loadts", "opentemplate", "openoutput", "render">>

StageIndex(stage) == CHOOSE i \in 1..Len(StageOrder) : StageOrder[i] = stage

Done(stage) == \E i \in 1..Len(ran) : ran[i] = stage

\* the (name, uid) pairs of the matching lines of the header, in header order
Matched == ExtractEntries(dcmtk, Len(dcmtk))

\* p is n followed by spaces only
IsPaddingOf(p, n) ==
    /\ Len(p) >= Len(n)
    /\ SubSeq(p, 1, Len(n)) = n
    /\ \A i \in (Len(n) + 1)..Len(p) : CharAt(p, i) = " "

\* the name before padding: names end with "Storage" or "TransferSyntax", never with a space
RECURSIVE Unpadded(_)
Unpadded(p) ==
    IF Len(p) > 0 /\ CharAt(p, Len(p)) = " " THEN Unpadded(SubSeq(p, 1, Len(p) - 1)) ELSE p

\* e is the entry m with its name padded
IsPadded(e, m) == e.uid = m.uid /\ IsPaddingOf(e.name, m.name)

Holds(list, m) == \E i \in 1..Len(list) : IsPadded(list[i], m)

\* how many entries of list are the padded entry m
Count(list, m) == Cardinality({i \in 1..Len(list) : IsPadded(list[i], m)})

Outputs == store_scp \o draft_store_scp \o retired_store_scp

-----------------------------------------------------------------------------
\* C1: when the UID Extractor has finished (line 78), every matched entry is in exactly one of
\* store_scp, draft_store_scp and retired_store_scp, the three lists hold nothing
\* else, the names of draft_store_scp start with "DRAFT", those of
\* retired_store_scp with "RETIRED", and those of store_scp with neither.
C1_Partition ==
    pc = "classified" =>
        /\ \A k \in 1..Len(Matched) :
              LET m == Matched[k]
              IN  /\ Holds(store_scp, m) \/ Holds(draft_store_scp, m) \/ Holds(retired_store_scp, m)
                  /\ ~(Holds(store_scp, m) /\ Holds(draft_store_scp, m))
                  /\ ~(Holds(store_scp, m) /\ Holds(retired_store_scp, m))
                  /\ ~(Holds(draft_store_scp, m) /\ Holds(retired_store_scp, m))
        /\ \A i \in 1..Len(Outputs) : \E k \in 1..Len(Matched) : IsPadded(Outputs[i], Matched[k])
        /\ Len(Outputs) = Len(Matched)
        /\ \A i \in 1..Len(draft_store_scp) : startswith(draft_store_scp[i].name, "DRAFT")
        /\ \A i \in 1..Len(retired_store_scp) : startswith(retired_store_scp[i].name, "RETIRED")
        /\ \A i \in 1..Len(store_scp) :
              /\ ~startswith(store_scp[i].name, "DRAFT")
              /\ ~startswith(store_scp[i].name, "RETIRED")

C1_Witness ==
    /\ pc = "classified"
    /\ store_scp # <<>>
    /\ draft_store_scp # <<>>
    /\ retired_store_scp # <<>>

-----------------------------------------------------------------------------
\* C5 as stated: when the UID Extractor has finished (line 78), the three lists hold exactly the
\* matched (name, uid) pairs and no pair appears more than once across them, also
\* when the header holds the same matching line more than once.
C5_NoDuplicates ==
    pc = "classified" =>
        /\ \A k \in 1..Len(Matched) : Count(Outputs, Matched[k]) >= 1
        /\ \A i \in 1..Len(Outputs) : \E k \in 1..Len(Matched) : IsPadded(Outputs[i], Matched[k])
        /\ \A i, j \in 1..Len(Outputs) : i # j => Outputs[i] # Outputs[j]

\* C5 as amended: when the UID Extractor has finished (line 78), the three lists hold exactly the
\* matched (name, uid) pairs, and each pair appears across them as many times as
\* the header has a matching line for it: once when the matching lines are distinct.
C5_SameOccurrences ==
    pc = "classified" =>
        /\ \A k \in 1..Len(Matched) : Count(Outputs, Matched[k]) = Count(Matched, Matched[k])
        /\ \A i \in 1..Len(Outputs) : \E k \in 1..Len(Matched) : IsPadded(Outputs[i], Matched[k])

C5_Witness ==
    /\ pc = "classified"
    /\ \E i, j \in 1..Len(Outputs) : i # j /\ Outputs[i] = Outputs[j]
    /\ \E i, j \in 1..Len(Outputs) : Outputs[i] # Outputs[j]

-----------------------------------------------------------------------------
\* the longest name among the matching lines of the header, before padding
RECURSIVE MaxNameLen(_)
MaxNameLen(entries) ==
    IF entries = <<>> THEN 0
    ELSE LET rest == MaxNameLen(Tail(entries))
             n == Len(Head(entries).name)
         IN  IF n > rest THEN n ELSE rest

\* C6: when the UID Extractor has finished, every name of store_scp,
\* draft_store_scp and retired_store_scp has the same length, the length of the
\* longest unpadded name among all the matched entries, and is the name of a
\* matched entry followed by spaces only.
C6_OneColumnWidth ==
    pc = "classified" =>
        \A i \in 1..Len(Outputs) :
            /\ Len(Outputs[i].name) = MaxNameLen(Matched)
            /\ \E k \in 1..Len(Matched) : IsPadded(Outputs[i], Matched[k])

\* store_scp holds a name shorter than the longest name, which is a retired one
C6_Witness ==
    /\ pc = "classified"
    /\ store_scp # <<>>
    /\ retired_store_scp # <<>>
    /\ \E i \in 1..Len(store_scp) : Len(Unpadded(store_scp[i].name)) < MaxNameLen(Matched)
    /\ \A i \in 1..Len(store_scp) : Len(Unpadded(store_scp[i].name)) < MaxNameLen(Matched)

-----------------------------------------------------------------------------
\* the uids of the entries of list whose unpadded name is n, in the order of list
RECURSIVE UidsNamed(_, _)
UidsNamed(list, n) ==
    IF list = <<>> THEN <<>>
    ELSE IF Unpadded(Head(list).name) = n
         THEN <<Head(list).uid>> \o UidsNamed(Tail(list), n)
         ELSE UidsNamed(Tail(list), n)

\* list is in ascending order of the unpadded names, equal names in header order
InNameOrder(list) ==
    /\ \A i, j \in 1..Len(list) :
          i < j => ~StrLess(Unpadded(list[j].name), Unpadded(list[i].name))
    /\ \A i \in 1..Len(list) :
          UidsNamed(list, Unpadded(list[i].name)) = UidsNamed(Matched, Unpadded(list[i].name))

\* C7: when the UID Extractor has finished, each of store_scp, draft_store_scp and
\* retired_store_scp is in ascending order of the names before padding, and its
\* entries of equal name are in the order of their lines in the header.
C7_GlobalNameOrder ==
    pc = "classified" =>
        /\ InNameOrder(store_scp)
        /\ InNameOrder(draft_store_scp)
        /\ InNameOrder(retired_store_scp)

\* the header lists two names of store_scp in descending order and one of them
\* twice with different uids
C7_Witness ==
    /\ pc = "classified"
    /\ \E i, j \in 1..Len(Matched) :
          /\ i < j
          /\ StrLess(Matched[j].name, Matched[i].name)
          /\ Holds(store_scp, Matched[i])
          /\ Holds(store_scp, Matched[j])
    /\ \E i, j \in 1..Len(store_scp) :
          /\ i < j
          /\ store_scp[i].name = store_scp[j].name
          /\ store_scp[i].uid # store_scp[j].uid
          /\ StrLess(store_scp[j].uid, store_scp[i].uid)

-----------------------------------------------------------------------------
\* the name line 89 gives record rec, padded to the longest such name of records
ExpectedName(rec, records) ==
    LET Width(k) == Len(records[k].Value) + Len("TransferSyntax")
        w == CHOOSE x \in {Width(k) : k \in 1..Len(records)} :
                 \A k \in 1..Len(records) : Width(k) <= x
        n == rec.Value \o "TransferSyntax"
    IN  n \o Spaces(w - Len(n))

\* C8: when the Transfer Syntax Loader has finished (line 98), transfer_syntaxes
\* has one entry per record of the file, each record being the source of as many
\* entries as it has copies in the file, each entry has the UID of its record
\* and the name Value + "TransferSyntax" padded with spaces to the longest such
\* name, and the entries are in ascending order of the uid strings.
C8_TransferSyntaxes ==
    pc = "tsready" =>
        /\ Len(transfer_syntaxes) = Len(a)
        /\ \A k \in 1..Len(a) :
              Cardinality({i \in 1..Len(transfer_syntaxes) :
                              /\ transfer_syntaxes[i].uid = a[k].UID
                              /\ transfer_syntaxes[i].name = ExpectedName(a[k], a)})
                  = Cardinality({j \in 1..Len(a) : a[j] = a[k]})
        /\ \A i, j \in 1..Len(transfer_syntaxes) :
              i < j => ~StrLess(transfer_syntaxes[j].uid, transfer_syntaxes[i].uid)

\* the file lists ...4.90 before ...4.100, the loader puts ...4.100 first
C8_Witness ==
    /\ pc = "tsready"
    /\ Len(a) = 2
    /\ a[1].UID = "1.2.840.10008.1.2.4.90"
    /\ a[2].UID = "1.2.840.10008.1.2.4.100"
    /\ transfer_syntaxes[1].uid = "1.2.840.10008.1.2.4.100"
    /\ transfer_syntaxes[2].uid = "1.2.840.10008.1.2.4.90"
    /\ Len(transfer_syntaxes[2].name) > Len("JPEG2000LosslessOnlyTransferSyntax")

-----------------------------------------------------------------------------
\* the padding step of lines 73-74 and 97-98 with the width of lines 61-65 and 86-93
Repad(entries) == PadNames(entries, LongestName(entries))

\* C10: padding again the Storage UID collection that lines 73-74 padded, or the
\* transfer-syntax collection that lines 97-98 padded, to its own longest name
\* changes no name and no position.
C10_PaddingIdempotent ==
    /\ pc = "padded" => Repad(all_store_scp) = all_store_scp
    /\ pc = "tsready" => Repad(transfer_syntaxes) = transfer_syntaxes

\* both collections hold a name that the padding lengthened
C10_Witness ==
    /\ pc = "tsready"
    /\ \E i \in 1..Len(all_store_scp) : Unpadded(all_store_scp[i].name) # all_store_scp[i].name
    /\ \E i \in 1..Len(transfer_syntaxes) :
          Unpadded(transfer_syntaxes[i].name) # transfer_syntaxes[i].name

-----------------------------------------------------------------------------
\* the offset of the first declaration of the text r searched
FirstDeclaration == CHOOSE i \in VersionMatches(cmake) : \A j \in VersionMatches(cmake) : i <= j

-----------------------------------------------------------------------------
\* the members of the archive whose path ends with the path of dcuid.h
HeaderMembers(names) == {i \in 1..Len(names) : endswith(names[i], HeaderSuffix)}

LastHeaderMember(names) ==
    IF HeaderMembers(names) = {} THEN 0
    ELSE CHOOSE i \in HeaderMembers(names) : \A j \in HeaderMembers(names) : j <= i

\* C9: the scan of the archive leaves in dcuid the last member whose path ends
\* with 'dcmdata/include/dcmtk/dcmdata/dcuid.h'; with no such member the run fails
\* at line 55 with no line read and no entry extracted, with one or more the last
\* one is read and the run goes on.
C9_LastMemberWins ==
    [][/\ pc = "fetched" => dcuid' = LastHeaderMember(tar)
       /\ (pc = "scanned" /\ HeaderMembers(tar) = {}) =>
              /\ pc' = "failed"
              /\ failedAt' = "readlines"
              /\ dcmtk' = <<>>
              /\ all_store_scp' = <<>>
       /\ (pc = "scanned" /\ HeaderMembers(tar) # {}) =>
              /\ dcuid = LastHeaderMember(tar)
              /\ pc' = "header"]_vars

\* two members match: the second is the one extracted
C9_Witness ==
    /\ pc = "scanned"
    /\ Cardinality(HeaderMembers(tar)) = 2
    /\ tar[1] # tar[2]
    /\ dcuid = 2

-----------------------------------------------------------------------------
NonAsciiLines == {l \in HeaderLines : ~IsAscii(l)}

\* C4: the stages run in program order and an exception ends the run at its
\* stage; the stages that completed met no missing declaration, no failed
\* download, no missing member, no non-ASCII line and no malformed record; and
\* until line 103 has run, after every earlier stage and the opening of the
\* template, DicomConformanceStatement.txt is as it was before the run.
C4_OutputOpenedLast ==
    /\ Len(ran) <= Len(StageOrder)
    /\ ran = SubSeq(StageOrder, 1, Len(ran))
    /\ pc = "failed" => failedAt = StageOrder[Len(ran) + 1]
    /\ pc # "failed" => failedAt = ""
    /\ Done("extract") => \A i \in 1..Len(dcmtk) : dcmtk[i] \notin NonAsciiLines
    /\ Done("loadts") => \A k \in 1..Len(a) : {"Value", "UID"} \subseteq DOMAIN a[k]
    /\ ~Done("openoutput") => outFile = outBefore
    /\ Done("openoutput") => Len(ran) >= StageIndex("opentemplate")

\* the transfer-syntax data is malformed: the statement of the previous run is intact
C4_Witness ==
    /\ pc = "failed"
    /\ failedAt = "loadts"
    /\ outBefore.exists
    /\ outFile = outBefore
    /\ store_scp # <<>>

-----------------------------------------------------------------------------
\* C2: when the Document Renderer fails, DicomConformanceStatement.txt holds the
\* whole rendered document or is as it was before the run, never truncated.
C2_NoPartialOutput ==
    failedAt = "render" =>
        \/ outFile = outBefore
        \/ outFile = [exists |-> TRUE, content |-> Render(AllSections, RenderContext)]

=============================================================================
